---- MODULE Spec2Model ----
(***************************************************************************)
(* A model of the Napkin MCP bridge (src/index.js): the JSON-RPC           *)
(* dispatcher handleMcpRequest, the POST /mcp handler with its batch loop, *)
(* the tool handlers generateNapkinVisual (create, poll, download) and     *)
(* bundleImages, the download endpoints, GET /sse, the expiry sweeper, and *)
(* the two process-wide maps imageStore and sessions.                      *)
(*                                                                         *)
(* Node runs the handlers on one thread: code between two awaits is one    *)
(* atomic step.  Every action below is one such run of synchronous code,   *)
(* from the event that resumes it (an HTTP request arriving, a provider    *)
(* response arriving, a timer firing) to the next await or to the HTTP     *)
(* response.  Provider responses are inputs, drawn with \E.                *)
(*                                                                         *)
(* Strings built by template literals are sequences of string fragments,   *)
(* so that the parts a message embeds can be read back.                    *)
(***************************************************************************)
EXTENDS Integers, Sequences, FiniteSets, TLC

(***************************************************************************)
(* Bounds of the model.                                                    *)
(***************************************************************************)
\* longest batch body of one POST /mcp
MaxBatch == 2
\* number of POST /mcp requests accepted in one run
MaxRequests == 2
\* number of poll outcomes kept in the history variable statusLog
LogCap == 3

(***************************************************************************)
(* Program constants.                                                      *)
(***************************************************************************)
\* src/index.js:221
maxAttempts == 12
\* src/index.js:222 (milliseconds)
pollInterval == 2000

\* the connections (concurrently open POST /mcp requests) of the model
Slots == {1}

(***************************************************************************)
(* JSON values.                                                            *)
(***************************************************************************)
\* the `id` member of a request: absent (undefined), JSON null, or a value
Absent == "absent"
Null == "null"
\* the ids of the single requests of the model
RequestIds == {Absent, Null, "1"}

IsNotification(request) == request.isObject /\ request.id \in {Absent, Null}

NoParams == [present |-> FALSE, name |-> "", hasArgs |-> FALSE, filename |-> "",
             hasImageIds |-> FALSE, image_ids |-> <<>>]

\* a JSON null element of a batch: not an object, nothing can be read off it
NullElement == [isObject |-> FALSE, method |-> "", id |-> Absent, params |-> NoParams]

Request(method, id, params) == [isObject |-> TRUE, method |-> method, id |-> id, params |-> params]

Params(name, hasArgs, filename, image_ids) ==
    [present |-> TRUE, name |-> name, hasArgs |-> hasArgs, filename |-> filename,
     hasImageIds |-> hasArgs, image_ids |-> image_ids]

\* the same params with an `arguments` object that has no image_ids member
WithoutImageIds(params) == [params EXCEPT !.hasImageIds = FALSE, !.image_ids = <<>>]

\* values of randomUUID(), cut after their second group
Uuids == {"a1b2c3d4-e5f6", "b2c3d4e5-f6a7"}

\* String.prototype.slice(0, 8)
Slice8(string) == SubSeq(string, 1, 8)

BundleKey_Sliced(bundleId) == Slice8(bundleId)

\* store keys: an imageId is the first 8 characters of a uuid (line 276), a bundle key
\* is "bundle_" + uuid (line 179)
BundleKey(bundleId) == "bundle_" \o bundleId

ImageIds == {Slice8(uuid) : uuid \in Uuids}
\* the uuid of a bundle; its first 8 characters are those of an imageId
BundleUuids == {"a1b2c3d4-9999"}
SessionIds == {"s1", "s2"}
Blobs == {"PNGDATA"}

(***************************************************************************)
(* JSON-RPC responses.  NoResponse is the null that handleMcpRequest       *)
(* returns for a notification.                                             *)
(***************************************************************************)
NoResult == [kind |-> "none", content |-> <<>>, isError |-> FALSE]
NoError == [code |-> 0, message |-> <<>>]
NoResponse == [jsonrpc |-> "none", id |-> Absent, result |-> NoResult, error |-> NoError]

jsonRpcResponse(id, result) == [jsonrpc |-> "2.0", id |-> id, result |-> result, error |-> NoError]

jsonRpcError(id, code, message) ==
    [jsonrpc |-> "2.0", id |-> id, result |-> NoResult, error |-> [code |-> code, message |-> message]]

IsRpcError(response) == response.jsonrpc = "2.0" /\ response.error # NoError
IsRpcResult(response) == response.jsonrpc = "2.0" /\ response.error = NoError

TextBlock(text) == [type |-> "text", text |-> text, data |-> "", mimeType |-> ""]
ImageBlock(data, mimeType) == [type |-> "image", text |-> <<>>, data |-> data, mimeType |-> mimeType]

\* a tool result as handleMcpRequest wraps it: `isError` is set on failures only
ToolResult(content) == [kind |-> "tool", content |-> content, isError |-> FALSE]
ToolError(prefix, message) ==
    [kind |-> "tool", content |-> <<TextBlock(<<prefix>> \o message)>>, isError |-> TRUE]

\* what a call of an async function comes to: a returned value or a thrown error
Return(value) == [tag |-> "return", value |-> value, message |-> <<>>]
Throw(message) == [tag |-> "throw", value |-> NoResponse, message |-> message]

TOOLS == {"generate_visual", "bundle_images"}
BASE_URL == ""

(***************************************************************************)
(* The provider.  A fetch either rejects (a network-level failure) or      *)
(* resolves to a response with a status and a body.                        *)
(***************************************************************************)
Ok(response) == response.status >= 200 /\ response.status <= 299

NoData == [valid |-> TRUE, id |-> "", request_id |-> "", status |-> "", generated_files |-> <<>>,
           url |-> "", error |-> ""]
Rejected == [kind |-> "reject", status |-> 0, text |-> "", data |-> NoData]
HttpResponse(status, text, data) == [kind |-> "response", status |-> status, text |-> text, data |-> data]
InvalidJson == [NoData EXCEPT !.valid = FALSE]

\* responses to POST /v1/visual
CreateResponses ==
    {Rejected, HttpResponse(429, "quota exceeded", NoData), HttpResponse(200, "", InvalidJson)}
    \cup {HttpResponse(200, "", [NoData EXCEPT !.id = i, !.request_id = r]) :
             i \in {"", "j1"}, r \in {"", "j2"}}

\* responses to GET /v1/visual/:id/status
StatusData(status, generated_files, url, error) ==
    [NoData EXCEPT !.status = status, !.generated_files = generated_files, !.url = url, !.error = error]

StatusResponses ==
    {Rejected, HttpResponse(503, "unavailable", NoData), HttpResponse(200, "", InvalidJson)}
    \cup {HttpResponse(200, "", StatusData("pending", <<>>, "", "")),
          \* a payload that names a URL before the job has completed
          HttpResponse(200, "", StatusData("processing", <<>>, "https://x/u.png", ""))}
    \cup {HttpResponse(200, "", StatusData("completed", f, u, "")) :
             f \in {<<>>, <<"https://x/f.png">>}, u \in {"", "https://x/u.png"}}
    \cup {HttpResponse(200, "", StatusData(st, <<>>, "", e)) :
             st \in {"failed", "error"}, e \in {"", "render crashed"}}

\* responses to GET <fileUrl>; contentType is the header cut at its semicolons, <<>> when
\* the header is absent
FileResponse(status, contentType, body) ==
    [kind |-> "response", status |-> status, contentType |-> contentType, body |-> body]
FileRejected == [kind |-> "reject", status |-> 0, contentType |-> <<>>, body |-> ""]

FileResponses ==
    {FileRejected, FileResponse(404, <<>>, "")}
    \cup {FileResponse(200, ct, b) :
             ct \in {<<>>, <<"image/png">>, <<"image/svg+xml", " charset=utf-8">>}, b \in Blobs}

FetchFailed == <<"fetch failed">>
JsonSyntaxError == <<"Unexpected token < in JSON at position 0">>
TimedOut == <<"Visual generation timed out after 24 seconds. Try a simpler prompt.">>

\* JSON.stringify of a status payload
Stringify(data) ==
    <<"status:", data.status, "generated_files:">> \o data.generated_files
        \o <<"url:", data.url, "error:", data.error>>

(***************************************************************************)
(* The state.                                                              *)
(***************************************************************************)
VARIABLES
    imageStore,   \* the Map imageStore: store key -> artifact or bundle record
    sessions,     \* the Map sessions: session id -> session record
    accepted,     \* number of POST /mcp requests accepted so far
    pc,           \* per connection: where its POST /mcp handler is suspended
    frame,        \* per connection: the handler's locals (body, loop position, responses)
    http,         \* per connection: the HTTP response sent, status 0 while none is
    gen,          \* per connection: the locals of the running generateNapkinVisual
    io,           \* per connection: the provider requests the tool call of the current
                  \* element has issued, the poll intervals it has waited, and what its
                  \* last status poll came to
    statusLog,    \* per connection: what the first status polls of that tool call came to
    settled,      \* per connection: how the tool handler of the current element settled
    now,          \* what Date.now() reads, in milliseconds
    streams,      \* the session ids of the open GET /sse connections
    served,       \* the download request answered last (route, id) and its response
    sweptAt       \* what Date.now() read in the last run of the sweeper, -1 before the first

vars == <<imageStore, sessions, accepted, pc, frame, http, gen, io, statusLog, settled,
          now, streams, served, sweptAt>>

\* what the POST /mcp handler and the tool handlers never write
outside == <<now, streams, served, sweptAt>>

\* records of imageStore, made at the time Date.now() reads `now`; an artifact record
\* has no `type` member
Artifact(data, mimeType, filename) ==
    [type |-> "undefined", data |-> data, mimeType |-> mimeType, filename |-> filename,
     imageIds |-> <<>>, created |-> now]
Bundle(image_ids) ==
    [type |-> "bundle", data |-> "", mimeType |-> "", filename |-> "undefined",
     imageIds |-> image_ids, created |-> now]

\* records of sessions; `res` tells the record of a GET /sse from that of a POST /mcp
Session(res) == [created |-> now, res |-> res]

EmptyMap == [k \in {} |-> Bundle(<<>>)]
NoSessions == [k \in {} |-> Session(FALSE)]

\* Map.prototype.delete on every key that is not in `keys`
Keep(map, keys) == [k \in DOMAIN map \cap keys |-> map[k]]

\* Map.prototype.set
MapSet(map, key, value) == [k \in DOMAIN map \cup {key} |-> IF k = key THEN value ELSE map[k]]

NoHttp == [status |-> 0, kind |-> "none", json |-> <<>>]
\* idx is the position of the element handleMcpRequest was last called on, 0 before the
\* first; closed tells that the client has closed the connection of `req` and `res`
NoFrame == [isArray |-> FALSE, body |-> <<>>, idx |-> 0, response |-> NoResponse, responses |-> <<>>,
            closed |-> FALSE]
NoGen == [requestId |-> "", attempt |-> 0, statusData |-> NoData, fileUrl |-> "", fileStatus |-> 0,
          fileType |-> <<>>, fileBody |-> ""]
\* `create` and `file` are what the creation request and the file request came to, ""
\* while they have not been answered
NoIo == [creates |-> 0, polls |-> 0, downloads |-> 0, sleeps |-> 0, last |-> "", file |-> "", create |-> ""]
Unsettled == [tag |-> "none", value |-> <<>>, message |-> <<>>]
NoServed == [route |-> "none", id |-> "", status |-> 0, contentType |-> "", filename |-> "",
             body |-> "", entries |-> <<>>]

\* the server has started and listens: both maps are empty (lines 16-17), no request
\* has arrived on any of the connections Conns
InitOn(Conns) ==
    /\ imageStore = EmptyMap
    /\ sessions = NoSessions
    /\ accepted = 0
    /\ pc = [s \in Conns |-> "idle"]
    /\ frame = [s \in Conns |-> NoFrame]
    /\ http = [s \in Conns |-> NoHttp]
    /\ gen = [s \in Conns |-> NoGen]
    /\ io = [s \in Conns |-> NoIo]
    /\ statusLog = [s \in Conns |-> <<>>]
    /\ settled = [s \in Conns |-> Unsettled]
    /\ now = 0
    /\ streams = {}
    /\ served = NoServed
    /\ sweptAt = -1

Init == InitOn(Slots)

(***************************************************************************)
(* handleMcpRequest: the switch on `method`.  A tools/call of a known tool *)
(* comes to "call": the tool handler runs next (see HandleMcpRequest).     *)
(***************************************************************************)
Call(name) == [tag |-> "call", value |-> NoResponse, message |-> <<name>>]

UnknownTool_AsMethod(id, name) == jsonRpcError(id, -32601, <<"Method not found: ", "tools/call">>)

\* line 142
UnknownTool(id, name) == jsonRpcError(id, -32601, <<"Unknown tool: ", name>>)

\* line 148
MethodNotFound(id, method) == jsonRpcError(id, -32601, <<"Method not found: ", method>>)

\* lines 103-142
ToolsCall(id, params) ==
    IF ~params.present
    THEN \* line 104: destructuring undefined throws
         Throw(<<"Cannot destructure property 'name' of 'params' as it is undefined.">>)
    ELSE IF params.name \in TOOLS THEN Call(params.name)
    ELSE Return(UnknownTool(id, params.name))

Dispatch(request) ==
    IF ~request.isObject
    THEN \* line 82: destructuring null throws
         Throw(<<"Cannot destructure property 'method' of 'request' as it is null.">>)
    ELSE CASE request.method = "initialize" ->
                Return(jsonRpcResponse(request.id, [kind |-> "initialize", content |-> <<>>, isError |-> FALSE]))
           [] request.method = "notifications/initialized" ->
                Return(NoResponse)
           [] request.method = "tools/list" ->
                Return(jsonRpcResponse(request.id, [kind |-> "tools", content |-> <<>>, isError |-> FALSE]))
           [] request.method = "tools/call" ->
                ToolsCall(request.id, request.params)
           [] request.method = "ping" ->
                Return(jsonRpcResponse(request.id, [kind |-> "empty", content |-> <<>>, isError |-> FALSE]))
           [] OTHER ->
                Return(MethodNotFound(request.id, request.method))

WrapGenerate_Rethrown(id, outcome) ==
    IF outcome.tag = "return"
    THEN jsonRpcResponse(id, ToolResult(outcome.value))
    ELSE jsonRpcError(id, -32603, outcome.message)

\* lines 107-120: the try/catch around generateNapkinVisual
WrapGenerate(id, outcome) ==
    IF outcome.tag = "return"
    THEN jsonRpcResponse(id, ToolResult(outcome.value))
    ELSE jsonRpcResponse(id, ToolError("Error generating visual: ", outcome.message))

\* lines 124-139: the try/catch around bundleImages
WrapBundle(id, outcome) ==
    IF outcome.tag = "return"
    THEN jsonRpcResponse(id, ToolResult(<<TextBlock(outcome.value)>>))
    ELSE jsonRpcResponse(id, ToolError("Error bundling images: ", outcome.message))

(***************************************************************************)
(* bundleImages: the outcome and the store it leaves.                      *)
(***************************************************************************)
FirstMissing_Last(image_ids, store) ==
    CHOOSE i \in 1..Len(image_ids) :
        /\ image_ids[i] \notin DOMAIN store
        /\ \A j \in (i + 1)..Len(image_ids) : image_ids[j] \in DOMAIN store

\* lines 167-171: the position of the id the validation loop stops at
FirstMissing(image_ids, store) ==
    CHOOSE i \in 1..Len(image_ids) :
        /\ image_ids[i] \notin DOMAIN store
        /\ \A j \in 1..(i - 1) : image_ids[j] \in DOMAIN store

DownloadUrl(path, id) == IF BASE_URL # "" THEN BASE_URL \o path \o id ELSE path \o id

NoImageIds_OnlyAbsent(params) == ~params.hasImageIds

\* line 161
NoImageIds(params) == ~params.hasImageIds \/ Len(params.image_ids) = 0

bundleImages_Unvalidated(params, store, bundleId) ==
    IF NoImageIds(params)
    THEN [outcome |-> Throw(<<"No image IDs provided">>), store |-> store]
    ELSE [outcome |-> Return(<<"Bundle created with ", ToString(Len(params.image_ids)),
                               " images! Download ZIP: ", DownloadUrl("/download/zip/", bundleId),
                               " Images included: ">>
                             \o [i \in 1..Len(params.image_ids) |->
                                    IF params.image_ids[i] \in DOMAIN store
                                    THEN store[params.image_ids[i]].filename ELSE "undefined"]),
          store |-> MapSet(store, BundleKey(bundleId), Bundle(params.image_ids))]

bundleImages(params, store, bundleId) ==
    IF ~params.hasArgs
    THEN [outcome |-> Throw(<<"Cannot destructure property 'image_ids' of 'args' as it is undefined.">>),
          store |-> store]
    ELSE IF NoImageIds(params)
    THEN [outcome |-> Throw(<<"No image IDs provided">>), store |-> store]
    ELSE IF \E i \in 1..Len(params.image_ids) : params.image_ids[i] \notin DOMAIN store
    THEN [outcome |-> Throw(<<"Image not found: ",
                              params.image_ids[FirstMissing(params.image_ids, store)],
                              ". Images expire after 1 hour.">>),
          store |-> store]
    ELSE [outcome |-> Return(<<"Bundle created with ", ToString(Len(params.image_ids)),
                               " images! Download ZIP: ", DownloadUrl("/download/zip/", bundleId),
                               " Images included: ">>
                             \o [i \in 1..Len(params.image_ids) |-> store[params.image_ids[i]].filename]),
          store |-> MapSet(store, BundleKey(bundleId), Bundle(params.image_ids))]

(***************************************************************************)
(* generateNapkinVisual, one operator per run of code between two awaits.  *)
(* Each comes to Return or Throw (the promise settles) or to the await it  *)
(* stops at: "sleep" (line 225) or "download" (line 257).                  *)
(***************************************************************************)
Sleep == [tag |-> "sleep", value |-> <<>>, message |-> <<>>]
Download(fileUrl) == [tag |-> "download", value |-> <<>>, message |-> <<fileUrl>>]
Continue == [tag |-> "continue", value |-> <<>>, message |-> <<>>]

\* line 192: destructuring an undefined `args` throws before any fetch
NoArgs == Throw(<<"Cannot destructure property 'content' of 'args' as it is undefined.">>)

CreateStep_NoIdCheck(createResponse) ==
    IF createResponse.kind = "reject" THEN Throw(FetchFailed)
    ELSE IF ~Ok(createResponse)
    THEN Throw(<<"Napkin API error (", ToString(createResponse.status), "): ", createResponse.text>>)
    ELSE IF ~createResponse.data.valid THEN Throw(JsonSyntaxError)
    ELSE Sleep

\* lines 208-218: the creation response arrives
CreateStep(createResponse) ==
    IF createResponse.kind = "reject" THEN Throw(FetchFailed)
    ELSE IF ~Ok(createResponse)
    THEN Throw(<<"Napkin API error (", ToString(createResponse.status), "): ", createResponse.text>>)
    ELSE IF ~createResponse.data.valid THEN Throw(JsonSyntaxError)
    ELSE IF createResponse.data.id = "" /\ createResponse.data.request_id = ""
    THEN Throw(<<"No request ID returned from Napkin API">>)
    ELSE Sleep

\* what the creation request came to, as io.create records it
ObservedCreate(createResponse) ==
    IF createResponse.kind = "reject" THEN "network_error"
    ELSE IF ~Ok(createResponse) THEN "http_error"
    ELSE IF ~createResponse.data.valid THEN "invalid_json"
    ELSE IF createResponse.data.id = "" /\ createResponse.data.request_id = "" THEN "no_id"
    ELSE "ok"

\* line 214
RequestIdOf(createData) == IF createData.id # "" THEN createData.id ELSE createData.request_id

\* lines 224, 307-309: the loop header after an attempt that did not end the call
NextAttempt(attempt) ==
    IF attempt + 1 < maxAttempts THEN Sleep ELSE Throw(TimedOut)

FileUrlOf_Fallback(statusData) ==
    IF Len(statusData.generated_files) > 0 THEN statusData.generated_files[1]
    ELSE IF statusData.url # "" THEN statusData.url
    ELSE "https://api.napkin.ai/v1/visual/file"

\* lines 243-248
FileUrlOf(statusData) ==
    IF Len(statusData.generated_files) > 0 THEN statusData.generated_files[1] ELSE statusData.url

Completed_Eager(status) == status = "completed" \/ status = "processing"

\* line 241
Completed(status) == status = "completed"

Failed_OnlyFailed(status) == status = "failed"

\* line 303
Failed(status) == status = "failed" \/ status = "error"

\* line 304
GenerationFailed(statusData) ==
    Throw(<<"Visual generation failed: ", IF statusData.error # "" THEN statusData.error ELSE "Unknown error">>)

\* lines 227-236: what awaiting the status fetch comes to
AwaitStatus(statusResponse) ==
    IF statusResponse.kind = "reject" THEN Throw(FetchFailed)
    ELSE IF ~Ok(statusResponse) THEN Continue
    ELSE Return(statusResponse)

\* lines 238-306: the body of a 2xx status response is read
ReadStatus(statusResponse) ==
    IF ~statusResponse.data.valid THEN Throw(JsonSyntaxError)
    ELSE IF Completed(statusResponse.data.status)
    THEN IF FileUrlOf(statusResponse.data) = ""
         THEN Return(<<TextBlock(<<"Visual completed but no download URL found. Response: ">>
                                 \o Stringify(statusResponse.data))>>)
         ELSE Download(FileUrlOf(statusResponse.data))
    ELSE IF Failed(statusResponse.data.status)
    THEN GenerationFailed(statusResponse.data)
    ELSE Continue

\* lines 227-306: the status response arrives
PollStep(statusResponse) ==
    IF AwaitStatus(statusResponse).tag = "return"
    THEN ReadStatus(statusResponse)
    ELSE AwaitStatus(statusResponse)

\* what a status poll came to, as io.last and statusLog record it
Observed(statusResponse) ==
    IF statusResponse.kind = "reject" THEN "network_error"
    ELSE IF ~Ok(statusResponse) THEN "http_error"
    ELSE IF ~statusResponse.data.valid THEN "invalid_json"
    ELSE statusResponse.data.status

\* what the file request came to, as io.file records it
ObservedFile(fileResponse) ==
    IF fileResponse.kind = "reject" THEN "network_error"
    ELSE IF ~Ok(fileResponse) THEN "http_error"
    ELSE "ok"

\* line 272: Buffer.toString('base64')
Base64(buffer) == "base64(" \o buffer \o ")"

MimeTypeOf_Whole(contentType) ==
    IF contentType = <<>> THEN "image/png"
    ELSE IF Len(contentType) = 1 THEN contentType[1]
    ELSE contentType[1] \o ";" \o contentType[2]

\* lines 269, 273: the mime type is the content-type up to its first semicolon
MimeTypeOf(contentType) == IF contentType = <<>> THEN "image/png" ELSE contentType[1]

\* line 277
ExtOf(mimeType) ==
    IF mimeType \in {"image/svg+xml"} THEN "svg" ELSE IF mimeType \in {"image/png"} THEN "png" ELSE "jpg"

\* line 278
FinalFilename(filename, imageId, ext) ==
    IF filename # "" THEN filename \o "." \o ext ELSE "napkin_" \o imageId \o "." \o ext

DownloadStep_Unchecked(fileResponse, fileUrl, filename, imageId, store) ==
    IF fileResponse.kind = "reject" THEN [outcome |-> Throw(FetchFailed), store |-> store]
    ELSE LET mimeType == MimeTypeOf(fileResponse.contentType)
             finalFilename == FinalFilename(filename, imageId, ExtOf(mimeType))
         IN [outcome |-> Return(<<ImageBlock(Base64(fileResponse.body), mimeType),
                                  TextBlock(<<"Image ID: ", imageId, " Direct download: ",
                                              DownloadUrl("/download/", imageId),
                                              " Filename: ", finalFilename>>)>>),
             store |-> MapSet(store, imageId, Artifact(fileResponse.body, mimeType, finalFilename))]

\* lines 263-302: the file response arrives; the outcome and the store it leaves
DownloadStep(fileResponse, fileUrl, filename, imageId, store) ==
    IF fileResponse.kind = "reject" THEN [outcome |-> Throw(FetchFailed), store |-> store]
    ELSE IF ~Ok(fileResponse)
    THEN [outcome |-> Return(<<TextBlock(<<"Visual generated but failed to download: ",
                                           ToString(fileResponse.status), ". URL: ", fileUrl>>)>>),
          store |-> store]
    ELSE LET mimeType == MimeTypeOf(fileResponse.contentType)
             finalFilename == FinalFilename(filename, imageId, ExtOf(mimeType))
         IN [outcome |-> Return(<<ImageBlock(Base64(fileResponse.body), mimeType),
                                  TextBlock(<<"Image ID: ", imageId, " Direct download: ",
                                              DownloadUrl("/download/", imageId),
                                              " Filename: ", finalFilename>>)>>),
             store |-> MapSet(store, imageId, Artifact(fileResponse.body, mimeType, finalFilename))]

(***************************************************************************)
(* POST /mcp, lines 384-408: the handler resumes with what the awaited     *)
(* handleMcpRequest came to, and runs to its next await or to its response.*)
(* f is the handler's frame as the resumed code finds it.                  *)
(***************************************************************************)
Json(status, kind, json) == [status |-> status, kind |-> kind, json |-> json]

Resume(s, f, out) ==
    LET rs == IF out.value # NoResponse THEN Append(f.responses, out.value) ELSE f.responses
    IN IF out.tag = "throw"
       THEN \* lines 405-408
            /\ pc' = [pc EXCEPT ![s] = "done"]
            /\ http' = [http EXCEPT ![s] = Json(500, "object", <<jsonRpcError(Null, -32603, out.message)>>)]
            /\ frame' = [frame EXCEPT ![s] = f]
       ELSE IF f.isArray
       THEN \* lines 390-395
            /\ frame' = [frame EXCEPT ![s] = [f EXCEPT !.response = out.value, !.responses = rs]]
            /\ IF f.idx < Len(f.body)
               THEN pc' = [pc EXCEPT ![s] = "loop"] /\ http' = http
               ELSE /\ pc' = [pc EXCEPT ![s] = "done"]
                    /\ http' = [http EXCEPT ![s] = Json(200, "array", rs)]
       ELSE \* lines 398-404
            /\ pc' = [pc EXCEPT ![s] = "done"]
            /\ frame' = [frame EXCEPT ![s] = [f EXCEPT !.response = out.value]]
            /\ http' = [http EXCEPT ![s] =
                          IF out.value = NoResponse
                          THEN Json(204, "none", <<>>)
                          ELSE Json(200, "object", <<out.value>>)]

\* the element handleMcpRequest was last called on
Current(s) == frame[s].body[frame[s].idx]

\* lines 370-389: a request arrives on connection s, with a body drawn from Bodies and a
\* session id (sent in the header, or made at line 374) drawn from Ids, as one of the
\* `budget` requests of the run
PostMcpFrom(s, Bodies, budget, Ids) ==
    /\ pc[s] \in {"idle", "done"}
    /\ accepted < budget
    /\ accepted' = accepted + 1
    /\ \E sessionId \in Ids, b \in Bodies :
          /\ sessions' = IF sessionId \in DOMAIN sessions
                         THEN sessions
                         ELSE MapSet(sessions, sessionId, Session(FALSE))
          /\ frame' = [frame EXCEPT ![s] = [NoFrame EXCEPT !.isArray = b.isArray, !.body = b.body]]
          /\ IF b.isArray /\ Len(b.body) = 0
             THEN /\ pc' = [pc EXCEPT ![s] = "done"]
                  /\ http' = [http EXCEPT ![s] = Json(200, "array", <<>>)]
             ELSE /\ pc' = [pc EXCEPT ![s] = "loop"]
                  /\ http' = [http EXCEPT ![s] = NoHttp]
    /\ gen' = [gen EXCEPT ![s] = NoGen]
    /\ io' = [io EXCEPT ![s] = NoIo]
    /\ statusLog' = [statusLog EXCEPT ![s] = <<>>]
    /\ settled' = [settled EXCEPT ![s] = Unsettled]
    /\ UNCHANGED <<imageStore, outside>>

PostMcp(s, Bodies, budget) == PostMcpFrom(s, Bodies, budget, SessionIds)

\* lines 390/398 and 81-150: handleMcpRequest is called on the next element and runs to
\* its return, its throw, or the first await of generateNapkinVisual (line 195); the
\* randomUUID() of line 176 returns one of BundleIds
HandleMcpRequestFrom(s, BundleIds) ==
    /\ pc[s] = "loop"
    /\ LET f == [frame[s] EXCEPT !.idx = @ + 1]
           request == f.body[f.idx]
           d == Dispatch(request)
       IN /\ gen' = [gen EXCEPT ![s] = NoGen]
          /\ statusLog' = [statusLog EXCEPT ![s] = <<>>]
          /\ IF d.tag = "call" /\ d.message = <<"generate_visual">>
             THEN IF ~request.params.hasArgs
                  THEN /\ settled' = [settled EXCEPT ![s] = NoArgs]
                       /\ io' = [io EXCEPT ![s] = NoIo]
                       /\ Resume(s, f, Return(WrapGenerate(request.id, NoArgs)))
                       /\ UNCHANGED imageStore
                  ELSE \* line 195: the creation request is issued
                       /\ pc' = [pc EXCEPT ![s] = "create"]
                       /\ frame' = [frame EXCEPT ![s] = f]
                       /\ io' = [io EXCEPT ![s] = [NoIo EXCEPT !.creates = 1]]
                       /\ settled' = [settled EXCEPT ![s] = Unsettled]
                       /\ UNCHANGED <<imageStore, http>>
             ELSE IF d.tag = "call"
             THEN \E bundleId \in BundleIds :
                     LET r == bundleImages(request.params, imageStore, bundleId)
                     IN /\ imageStore' = r.store
                        /\ settled' = [settled EXCEPT ![s] = r.outcome]
                        /\ io' = [io EXCEPT ![s] = NoIo]
                        /\ Resume(s, f, Return(WrapBundle(request.id, r.outcome)))
             ELSE /\ Resume(s, f, d)
                  /\ settled' = [settled EXCEPT ![s] = Unsettled]
                  /\ io' = [io EXCEPT ![s] = NoIo]
                  /\ UNCHANGED imageStore
    /\ UNCHANGED <<sessions, accepted, outside>>

HandleMcpRequest(s) == HandleMcpRequestFrom(s, BundleUuids)

\* the generateNapkinVisual promise of connection s settles: handleMcpRequest wraps the
\* outcome (lines 109-119) and the POST handler resumes
Settle(s, outcome) ==
    /\ settled' = [settled EXCEPT ![s] = outcome]
    /\ Resume(s, frame[s], Return(WrapGenerate(Current(s).id, outcome)))

\* lines 208-225: the creation response, one of Responses, arrives
CreateRespondsFrom(s, Responses) ==
    /\ pc[s] = "create"
    /\ \E createResponse \in Responses :
          LET step == CreateStep(createResponse)
          IN /\ io' = [io EXCEPT ![s].create = ObservedCreate(createResponse)]
             /\ IF step.tag = "sleep"
                THEN /\ pc' = [pc EXCEPT ![s] = "sleep"]
                     /\ gen' = [gen EXCEPT ![s].requestId = RequestIdOf(createResponse.data),
                                            ![s].attempt = 0]
                     /\ UNCHANGED <<frame, http, settled>>
                ELSE /\ Settle(s, step)
                     /\ gen' = gen
    /\ UNCHANGED <<imageStore, sessions, accepted, statusLog, outside>>

CreateResponds(s) == CreateRespondsFrom(s, CreateResponses)

\* lines 225-227: the poll interval elapses and the status request is issued
SleepElapses(s) ==
    /\ pc[s] = "sleep"
    /\ pc' = [pc EXCEPT ![s] = "poll"]
    /\ io' = [io EXCEPT ![s].sleeps = @ + 1, ![s].polls = @ + 1]
    /\ UNCHANGED <<imageStore, sessions, accepted, frame, http, gen, statusLog, settled, outside>>

\* appends to a history variable that keeps its first `cap` entries
Log(log, entry, cap) == IF Len(log) < cap THEN Append(log, entry) ELSE log

\* lines 234-309: the status response, one of Responses, arrives; statusLog keeps the
\* first `cap` outcomes
StatusRespondsFrom(s, cap, Responses) ==
    /\ pc[s] = "poll"
    /\ \E statusResponse \in Responses :
          LET polled == PollStep(statusResponse)
              step == IF polled.tag = "continue" THEN NextAttempt(gen[s].attempt) ELSE polled
              data == IF AwaitStatus(statusResponse).tag = "return" /\ statusResponse.data.valid
                      THEN statusResponse.data ELSE NoData
          IN /\ statusLog' = [statusLog EXCEPT ![s] = Log(@, Observed(statusResponse), cap)]
             /\ CASE step.tag = "sleep" ->
                       /\ pc' = [pc EXCEPT ![s] = "sleep"]
                       /\ gen' = [gen EXCEPT ![s].attempt = @ + 1, ![s].statusData = data]
                       /\ io' = [io EXCEPT ![s].last = Observed(statusResponse)]
                       /\ UNCHANGED <<frame, http, settled>>
                  [] step.tag = "download" ->
                       \* line 257: the file request is issued
                       /\ pc' = [pc EXCEPT ![s] = "download"]
                       /\ gen' = [gen EXCEPT ![s].fileUrl = step.message[1], ![s].statusData = data]
                       /\ io' = [io EXCEPT ![s].downloads = @ + 1, ![s].last = Observed(statusResponse)]
                       /\ UNCHANGED <<frame, http, settled>>
                  [] OTHER ->
                       /\ Settle(s, step)
                       /\ gen' = [gen EXCEPT ![s].statusData = data]
                       /\ io' = [io EXCEPT ![s].last = Observed(statusResponse)]
    /\ UNCHANGED <<imageStore, sessions, accepted, outside>>

StatusResponds(s, cap) == StatusRespondsFrom(s, cap, StatusResponses)

\* lines 263-302: the file response, one of Responses, arrives
FileRespondsFrom(s, Responses) ==
    /\ pc[s] = "download"
    /\ \E fileResponse \in Responses, imageId \in ImageIds :
          LET r == DownloadStep(fileResponse, gen[s].fileUrl, Current(s).params.filename,
                                imageId, imageStore)
          IN /\ imageStore' = r.store
             /\ gen' = [gen EXCEPT ![s].fileStatus = fileResponse.status,
                                   ![s].fileType = fileResponse.contentType,
                                   ![s].fileBody = fileResponse.body]
             /\ io' = [io EXCEPT ![s].file = ObservedFile(fileResponse)]
             /\ Settle(s, r.outcome)
    /\ UNCHANGED <<sessions, accepted, statusLog, outside>>

FileResponds(s) == FileRespondsFrom(s, FileResponses)

(***************************************************************************)
(* The requests clients send.                                              *)
(***************************************************************************)
SeqsUpTo(S, n) == UNION {[1..k -> S] : k \in 0..n}

\* the image_ids a client asks to bundle: ids generate_visual may have returned, and a
\* bundle key
RequestedIds == ImageIds \cup {BundleKey(u) : u \in BundleUuids}

ToolParams ==
    {NoParams, Params("render_chart", TRUE, "", <<>>),
     Params("generate_visual", FALSE, "", <<>>), Params("bundle_images", FALSE, "", <<>>)}
    \cup {Params("generate_visual", TRUE, filename, <<>>) : filename \in {"", "chart"}}
    \cup {Params("bundle_images", TRUE, "", ids) : ids \in SeqsUpTo(RequestedIds, 2)}
    \cup {WithoutImageIds(Params("bundle_images", TRUE, "", <<>>))}

PlainMethods == {"initialize", "notifications/initialized", "tools/list", "ping", "resources/list"}

AllRequests ==
    {NullElement}
    \cup {Request(method, id, NoParams) : method \in PlainMethods, id \in RequestIds}
    \cup {Request("tools/call", id, params) : id \in RequestIds, params \in ToolParams}

Single(request) == [isArray |-> FALSE, body |-> <<request>>]
Batch(requests) == [isArray |-> TRUE, body |-> requests]

\* a single body is an object: a null body is not modelled
SingleBodies == {Single(request) : request \in AllRequests \ {NullElement}}

\* the elements of the batches of the model
BatchRequests ==
    {NullElement}
    \cup {Request(method, id, NoParams) :
             method \in {"ping", "notifications/initialized"}, id \in {Absent, "1", "2"}}
    \cup {Request("tools/call", "1", params) :
             params \in {NoParams, Params("generate_visual", TRUE, "", <<>>),
                         Params("bundle_images", TRUE, "", <<"a1b2c3d4">>)}}

BatchBodies == {Batch(requests) : requests \in SeqsUpTo(BatchRequests, MaxBatch)}

\* the bodies of the single tool calls that reach the provider
GenerateBodies ==
    {Single(Request("tools/call", "1", Params("generate_visual", TRUE, filename, <<>>))) :
        filename \in {"", "chart"}}

Step(Bodies, budget, cap) ==
    \E s \in Slots :
        \/ PostMcp(s, Bodies, budget)
        \/ HandleMcpRequest(s)
        \/ CreateResponds(s)
        \/ SleepElapses(s)
        \/ StatusResponds(s, cap)
        \/ FileResponds(s)

\* clients send single requests of every kind, one after the other
Next == Step(SingleBodies, MaxRequests, 0)
Spec == Init /\ [][Next]_vars

\* a client sends one batch
NextBatch == Step(BatchBodies, 1, 0)
SpecBatch == Init /\ [][NextBatch]_vars

\* a client sends one generate_visual call; the poll outcomes are recorded
NextPoller == Step(GenerateBodies, 1, LogCap)
SpecPoller == Init /\ [][NextPoller]_vars

(***************************************************************************)
(* A client that goes away.  POST /mcp registers no 'close' listener and   *)
(* hands no abort signal to fetch (lines 195, 227, 257, 370-409): the      *)
(* closing of the connection is seen by nothing in the program.            *)
(***************************************************************************)
Disconnect_Aborts(s) ==
    /\ pc[s] \notin {"idle", "done"}
    /\ ~frame[s].closed
    /\ frame' = [frame EXCEPT ![s].closed = TRUE]
    /\ pc' = [pc EXCEPT ![s] = "done"]
    /\ UNCHANGED <<imageStore, sessions, accepted, http, gen, io, statusLog, settled, outside>>

\* the client of connection s closes it while its request is being handled
Disconnect(s) ==
    /\ pc[s] \notin {"idle", "done"}
    /\ ~frame[s].closed
    /\ frame' = [frame EXCEPT ![s].closed = TRUE]
    /\ UNCHANGED <<imageStore, sessions, accepted, pc, http, gen, io, statusLog, settled, outside>>

\* a client sends one generate_visual call and may go away at any time
NextDisconnect ==
    \/ Step(GenerateBodies, 1, 0)
    \/ \E s \in Slots : Disconnect(s)
SpecDisconnect == Init /\ [][NextDisconnect]_vars

(***************************************************************************)
(* The download endpoints, lines 313-349.  Both are synchronous handlers:  *)
(* one step from the request to the response.                              *)
(***************************************************************************)
\* lines 318, 332: res.status(404).json({ error })
NotFound(error) ==
    [status |-> 404, contentType |-> "application/json", filename |-> "", body |-> error,
     entries |-> <<>>]

IsBundle_Never(record) == FALSE

\* lines 317, 331, 343: img.type === 'bundle'
IsBundle(record) == record.type = "bundle"

\* lines 313-324: GET /download/:id
ServeImage(id, store) ==
    IF id \notin DOMAIN store \/ IsBundle(store[id])
    THEN NotFound("Image not found or expired")
    ELSE [status |-> 200, contentType |-> store[id].mimeType, filename |-> store[id].filename,
          body |-> store[id].data, entries |-> <<>>]

\* line 344: archive.append(img.data, { name: img.filename })
ZipEntry(img) == [name |-> img.filename, data |-> img.data]

\* lines 342-345: what one member id adds to the archive
Appended(imageId, store) ==
    IF imageId \in DOMAIN store /\ ~IsBundle(store[imageId])
    THEN <<ZipEntry(store[imageId])>>
    ELSE <<>>

\* lines 341-346: the entries of the archive, in the order of the loop
RECURSIVE Archive(_, _)
Archive(imageIds, store) ==
    IF imageIds = <<>> THEN <<>>
    ELSE Appended(Head(imageIds), store) \o Archive(Tail(imageIds), store)

ServeZip_Strict(bundleId, store) ==
    IF BundleKey(bundleId) \notin DOMAIN store \/ ~IsBundle(store[BundleKey(bundleId)])
    THEN NotFound("Bundle not found or expired")
    ELSE IF \E i \in 1..Len(store[BundleKey(bundleId)].imageIds) :
               store[BundleKey(bundleId)].imageIds[i] \notin DOMAIN store
    THEN NotFound("Image not found or expired")
    ELSE [status |-> 200, contentType |-> "application/zip",
          filename |-> "napkin_images_" \o Slice8(bundleId) \o ".zip", body |-> "",
          entries |-> Archive(store[BundleKey(bundleId)].imageIds, store)]

\* lines 327-349: GET /download/zip/:bundleId
ServeZip(bundleId, store) ==
    IF BundleKey(bundleId) \notin DOMAIN store \/ ~IsBundle(store[BundleKey(bundleId)])
    THEN NotFound("Bundle not found or expired")
    ELSE [status |-> 200, contentType |-> "application/zip",
          filename |-> "napkin_images_" \o Slice8(bundleId) \o ".zip", body |-> "",
          entries |-> Archive(store[BundleKey(bundleId)].imageIds, store)]

\* the request and its response, as `served` keeps them
Served(route, id, response) ==
    [route |-> route, id |-> id, status |-> response.status,
     contentType |-> response.contentType, filename |-> response.filename,
     body |-> response.body, entries |-> response.entries]

\* the ids clients ask the endpoints for: image ids and bundle keys; bundle uuids and
\* a uuid no bundle has
DownloadIds == ImageIds \cup {BundleKey(u) : u \in BundleUuids}
ZipIds == BundleUuids \cup {"b2c3d4e5-f6a7"}

GetDownload ==
    /\ \E id \in DownloadIds : served' = Served("/download/:id", id, ServeImage(id, imageStore))
    /\ UNCHANGED <<imageStore, sessions, accepted, pc, frame, http, gen, io, statusLog, settled,
                   now, streams, sweptAt>>

GetDownloadZip ==
    /\ \E bundleId \in ZipIds :
          served' = Served("/download/zip/:bundleId", bundleId, ServeZip(bundleId, imageStore))
    /\ UNCHANGED <<imageStore, sessions, accepted, pc, frame, http, gen, io, statusLog, settled,
                   now, streams, sweptAt>>

(***************************************************************************)
(* GET /sse, lines 412-430.  The keepalive timer writes to the stream and  *)
(* touches no state.                                                       *)
(***************************************************************************)
\* what randomUUID() of line 417 may return: an id no session and no open stream has
FreshSessionIds == SessionIds \ (DOMAIN sessions \cup streams)

\* lines 412-424: a client opens the event stream
GetSse ==
    /\ \E sessionId \in FreshSessionIds :
          /\ sessions' = MapSet(sessions, sessionId, Session(TRUE))
          /\ streams' = streams \cup {sessionId}
    /\ UNCHANGED <<imageStore, accepted, pc, frame, http, gen, io, statusLog, settled, now, served,
                   sweptAt>>

\* lines 426-429: the client of an open stream disconnects
SseClose ==
    /\ \E sessionId \in streams :
          /\ streams' = streams \ {sessionId}
          /\ sessions' = Keep(sessions, DOMAIN sessions \ {sessionId})
    /\ UNCHANGED <<imageStore, accepted, pc, frame, http, gen, io, statusLog, settled, now, served,
                   sweptAt>>

(***************************************************************************)
(* The clock and the expiry sweeper, lines 433-448.  Only the readings of  *)
(* Date.now() matter to the program; the model keeps a few of them, around *)
(* one hour after the first.  The timers are not tied to the readings: a   *)
(* sweep may run at any of them, which covers every phase the 60 s         *)
(* interval can have.                                                      *)
(***************************************************************************)
\* line 435
oneHour == 3600000

\* an entry made at 0 is 3599 s and 3601 s old at the last two, one made at 1000 is
\* 3600 s old at the last
Instants == {0, 1000, oneHour - 1000, oneHour + 1000}

Advance ==
    /\ \E instant \in Instants : instant > now /\ now' = instant
    /\ UNCHANGED <<imageStore, sessions, accepted, pc, frame, http, gen, io, statusLog, settled,
                   streams, served, sweptAt>>

Expired_AtOneHour(item) == now - item.created >= oneHour

\* lines 438, 444
Expired(item) == now - item.created > oneHour

\* lines 433-448: the interval callback
Sweep ==
    /\ sessions' = Keep(sessions, {id \in DOMAIN sessions : ~Expired(sessions[id])})
    /\ imageStore' = Keep(imageStore, {id \in DOMAIN imageStore : ~Expired(imageStore[id])})
    /\ sweptAt' = now
    /\ UNCHANGED <<accepted, pc, frame, http, gen, io, statusLog, settled, now, streams, served>>

(***************************************************************************)
(* The store: clients generate images and bundle them against a provider   *)
(* that answers at once, download them, and time passes.                   *)
(***************************************************************************)
StoreBodies ==
    {Single(Request("tools/call", "1", Params("generate_visual", TRUE, "", <<>>)))}
    \cup {Single(Request("tools/call", "1", Params("bundle_images", TRUE, "", ids))) :
             ids \in [1..2 -> ImageIds]}

PromptCreate == {HttpResponse(200, "", [NoData EXCEPT !.id = "j1"])}
PromptStatus == {HttpResponse(200, "", StatusData("completed", <<"https://x/f.png">>, "", ""))}
PromptFile == {FileResponse(200, <<"image/png">>, b) : b \in Blobs}

NextStore ==
    \/ \E s \in Slots :
          \/ PostMcpFrom(s, StoreBodies, MaxRequests + 1, {"s1"})
          \/ HandleMcpRequest(s)
          \/ CreateRespondsFrom(s, PromptCreate)
          \/ SleepElapses(s)
          \/ StatusRespondsFrom(s, 0, PromptStatus)
          \/ FileRespondsFrom(s, PromptFile)
    \/ GetDownload
    \/ GetDownloadZip
    \/ Advance
    \/ Sweep
SpecStore == Init /\ [][NextStore]_vars

(***************************************************************************)
(* Timed sweeps: the interval timer of line 448 fires every sweepInterval  *)
(* milliseconds, and the clock does not pass a due run of the sweeper.     *)
(* Requests arrive in the first second; the clients fetch their downloads  *)
(* when more than an hour has passed.                                      *)
(***************************************************************************)
\* line 448: the period of setInterval
sweepInterval == 60000

NextSweepAfter_Slow(t) == t + 2 * sweepInterval

\* line 448: setInterval runs the callback again one period after a run
NextSweepAfter(t) == t + sweepInterval

\* when the callback runs next: one period after the start (at instant 0), then one
\* after each run
Due == NextSweepAfter(IF sweptAt < 0 THEN 0 ELSE sweptAt)

\* the last instant looked at: two periods after the first hour
Horizon == oneHour + 2 * sweepInterval

TimedInstants == {0, 1000} \cup {k * sweepInterval : k \in 1..(Horizon \div sweepInterval)}

\* time passes, up to the next run of the sweeper at most; a tool call (24 s of polling
\* at most) has ended well before the first run
Tick ==
    /\ \E instant \in TimedInstants : instant > now /\ instant <= Due /\ now' = instant
    /\ \A s \in Slots : pc[s] \in {"idle", "done"}
    /\ UNCHANGED <<imageStore, sessions, accepted, pc, frame, http, gen, io, statusLog, settled,
                   streams, served, sweptAt>>

\* the timer fires
SweepDue == now = Due /\ Sweep

TimedBodies ==
    {Single(Request("tools/call", "1", Params("generate_visual", TRUE, "", <<>>)))}
    \cup {Single(Request("tools/call", "1", Params("bundle_images", TRUE, "", <<id>>))) :
             id \in ImageIds}

NextTimed ==
    \/ \E s \in Slots :
          \/ now <= 1000 /\ PostMcpFrom(s, TimedBodies, MaxRequests, {"s1"})
          \/ HandleMcpRequest(s)
          \/ CreateRespondsFrom(s, PromptCreate)
          \/ SleepElapses(s)
          \/ StatusRespondsFrom(s, 0, PromptStatus)
          \/ FileRespondsFrom(s, PromptFile)
    \/ now > oneHour /\ GetDownload
    \/ now > oneHour /\ GetDownloadZip
    \/ Tick
    \/ SweepDue
SpecTimed == Init /\ [][NextTimed]_vars

(***************************************************************************)
(* Bundles of any ids: clients ask for bundles of image ids and of the     *)
(* keys of bundles made before; each bundle gets a uuid of its own.        *)
(***************************************************************************)
KindUuids == {"a1b2c3d4-9999", "c3d4e5f6-0000"}

\* randomUUID() of line 176: a uuid no bundle in the store has
FreshBundleIds == {u \in KindUuids : BundleKey(u) \notin DOMAIN imageStore}

KindBodies ==
    {Single(Request("tools/call", "1", Params("generate_visual", TRUE, "", <<>>)))}
    \cup {Single(Request("tools/call", "1", Params("bundle_images", TRUE, "", <<id>>))) :
             id \in ImageIds \cup {BundleKey(u) : u \in KindUuids}}

NextKinds ==
    \E s \in Slots :
       \/ PostMcpFrom(s, KindBodies, MaxRequests + 1, {"s1"})
       \/ HandleMcpRequestFrom(s, FreshBundleIds)
       \/ CreateRespondsFrom(s, PromptCreate)
       \/ SleepElapses(s)
       \/ StatusRespondsFrom(s, 0, PromptStatus)
       \/ FileRespondsFrom(s, PromptFile)
SpecKinds == Init /\ [][NextKinds]_vars

(***************************************************************************)
(* Concurrent tool calls: two connections, each with its own run of the    *)
(* POST handler, interleave at their awaits with each other and with the   *)
(* sweeper while time passes.                                              *)
(***************************************************************************)
Connections == {1, 2}

InitConcurrent == InitOn(Connections)

NextConcurrent ==
    \/ \E s \in Connections :
          \/ PostMcpFrom(s, StoreBodies, MaxRequests + 1, {"s1"})
          \/ HandleMcpRequest(s)
          \/ CreateRespondsFrom(s, PromptCreate)
          \/ SleepElapses(s)
          \/ StatusRespondsFrom(s, 0, PromptStatus)
          \/ FileRespondsFrom(s, PromptFile)
    \/ Advance
    \/ Sweep
SpecConcurrent == InitConcurrent /\ [][NextConcurrent]_vars

(***************************************************************************)
(* The sessions: clients ping over POST /mcp, open and close event         *)
(* streams, and time passes.                                               *)
(***************************************************************************)
PingBodies == {Single(Request("ping", "1", NoParams))}

NextSessions ==
    \/ \E s \in Slots :
          \/ PostMcpFrom(s, PingBodies, MaxRequests, SessionIds)
          \/ HandleMcpRequest(s)
    \/ GetSse
    \/ SseClose
    \/ Advance
    \/ Sweep
SpecSessions == Init /\ [][NextSessions]_vars

(***************************************************************************)
(* Properties.                                                             *)
(***************************************************************************)
\* the tool handler of the current element of connection s has settled
Ended(s) == settled[s].tag \in {"return", "throw"}

\* connection s is inside generateNapkinVisual
Polling(s) == pc[s] \in {"create", "sleep", "poll", "download"}

\* C1: a single request without an id (absent or null) is a notification whatever its
\* method: the dispatcher returns the no-response sentinel and POST /mcp answers 204
\* without a body.  (The requests handleMcpRequest throws on are left to C4.)
C1_NotificationGetsNoResponse ==
    \A s \in Slots :
        (/\ pc[s] = "done"
         /\ ~frame[s].isArray
         /\ IsNotification(frame[s].body[1])
         /\ http[s].status # 500)
        => (/\ frame[s].response = NoResponse
            /\ http[s].status = 204
            /\ http[s].json = <<>>)

IdsOf(responses) == [k \in 1..Len(responses) |-> responses[k].id]
IsCall(request) == ~IsNotification(request)

\* C2: the array answered to a batch holds one response per non-notification entry, in
\* the order of those entries, and nothing for the notification entries.  (Stated for
\* the batches of request objects that are answered 200.)
C2_BatchResponsesMatchCalls ==
    \A s \in Slots :
        (/\ pc[s] = "done"
         /\ frame[s].isArray
         /\ \A i \in 1..Len(frame[s].body) : frame[s].body[i].isObject
         /\ http[s].status = 200)
        => IdsOf(http[s].json) = IdsOf(SelectSeq(frame[s].body, IsCall))

\* an entry that calls for a response and that handleMcpRequest does not fail on
Answerable(request) ==
    /\ request.isObject
    /\ request.id \notin {Absent, Null}
    /\ request.method # "notifications/initialized"
    /\ request.method = "tools/call" => request.params.present

\* C3: a failure on one element of a batch does not keep the responses of the other
\* elements out of the HTTP response: every answerable entry finds its response there.
C3_BatchElementsIndependent ==
    \A s \in Slots :
        (pc[s] = "done" /\ frame[s].isArray)
        => \A i \in 1..Len(frame[s].body) :
              Answerable(frame[s].body[i])
              => \E k \in 1..Len(http[s].json) :
                    /\ http[s].json[k].id = frame[s].body[i].id
                    /\ http[s].status = 200

\* C4: handleMcpRequest never throws, so POST /mcp never reaches its catch clause (the
\* 500 response with error -32603).
C4_DispatcherNeverThrows ==
    \A s \in Slots : http[s].status # 500

UnknownToolCall(request) ==
    /\ request.isObject
    /\ request.method = "tools/call"
    /\ request.params.present
    /\ request.params.name \notin TOOLS

\* C5: handleMcpRequest answers a well-formed tools/call of a tool that is not in the
\* catalog with a JSON-RPC error of code -32601 whose message names the tool; the step
\* issues no provider request and leaves the store alone.
C5_UnknownToolIsRpcError ==
    [][\A s \in Slots :
          (/\ pc[s] = "loop"
           /\ frame'[s].body = frame[s].body
           /\ frame'[s].idx = frame[s].idx + 1
           /\ UnknownToolCall(frame[s].body[frame[s].idx + 1]))
          => LET request == frame[s].body[frame[s].idx + 1]
                 response == frame'[s].response
             IN /\ IsRpcError(response)
                /\ response.id = request.id
                /\ response.error.code = -32601
                /\ \E k \in 1..Len(response.error.message) :
                      response.error.message[k] = request.params.name
                /\ imageStore' = imageStore
                /\ io'[s] = NoIo
                /\ ~Polling(s)']_vars

C5_Witness ==
    \E s \in Slots :
        /\ pc[s] = "done"
        /\ UnknownToolCall(Current(s))
        /\ IsRpcError(frame[s].response)
        /\ imageStore # EmptyMap

\* C6: a failure raised inside generateNapkinVisual or bundleImages is answered with a
\* JSON-RPC result (never the `error` member) that has isError true and exactly one
\* text block.
C6_ToolFailureIsInBand ==
    \A s \in Slots :
        settled[s].tag = "throw"
        => LET response == frame[s].response
           IN /\ IsRpcResult(response)
              /\ response.id = Current(s).id
              /\ response.result.isError
              /\ Len(response.result.content) = 1
              /\ response.result.content[1].type = "text"
              /\ http[s].status = 200

C6_Witness ==
    \E s \in Slots :
        /\ pc[s] = "done"
        /\ settled[s] = Throw(TimedOut)
        /\ frame[s].response.result.isError

\* C7: a job whose status polls never report completed, failed or error (they report
\* another status, or fail) is polled exactly 12 times, and then the call fails with
\* the timeout error.
C7_NonTerminalJobTimesOut ==
    \A s \in Slots :
        (/\ Ended(s)
         /\ io[s].polls >= 1
         /\ io[s].last \in {"pending", "processing", "http_error", "network_error"})
        => (/\ io[s].polls = maxAttempts
            /\ settled[s] = Throw(TimedOut))

\* C8: a status poll that fails, by a rejected fetch or by a non-2xx response, is
\* skipped: polling goes on with the next attempt, and the call ends after it only by
\* running out of its 12 attempts.
C8_FailedPollIsTransient ==
    \A s \in Slots :
        io[s].last \in {"network_error", "http_error"}
        => \/ pc[s] \in {"sleep", "poll"}
           \/ settled[s] = Throw(TimedOut) /\ io[s].polls = maxAttempts

\* C9: when a status poll reports failed or error, generateNapkinVisual fails in that
\* step with the reported error message (or "Unknown error"); the store is left alone,
\* no file request is issued, and no provider request follows for that call.
C9_FailedStatusEndsCall ==
    [][\A s \in Slots :
          /\ (/\ pc[s] = "poll"
               /\ pc'[s] # "poll"
               /\ io'[s].last \in {"failed", "error"})
              => (/\ settled'[s].tag = "throw"
                  /\ settled'[s].message =
                        <<"Visual generation failed: ",
                          IF gen'[s].statusData.error # ""
                          THEN gen'[s].statusData.error ELSE "Unknown error">>
                  /\ ~Polling(s)'
                  /\ io'[s].polls = io[s].polls
                  /\ io'[s].downloads = 0
                  /\ imageStore' = imageStore)
          /\ (/\ io[s].last \in {"failed", "error"}
               /\ frame'[s].body = frame[s].body
               /\ frame'[s].idx = frame[s].idx)
              => (io'[s] = io[s] /\ imageStore' = imageStore)]_vars

C9_Witness ==
    \E s \in Slots :
        /\ pc[s] = "done"
        /\ io[s].last = "error"
        /\ io[s].polls = 3
        /\ gen[s].statusData.error = ""
        /\ settled[s].tag = "throw"

\* C10: at most one file request is issued per tool call, and only once a poll has
\* reported completed; for the poll sequence pending, pending, completed with a download
\* URL it is issued exactly once, when three poll intervals (so at least two) have
\* elapsed.
C10_OneFetchAfterCompleted ==
    \A s \in Slots :
        /\ io[s].downloads <= 1
        /\ pc[s] = "download" => io[s].downloads = 1
        /\ io[s].downloads = 1
           => (/\ io[s].last = "completed"
               /\ io[s].sleeps = io[s].polls)
        /\ (/\ statusLog[s] = <<"pending", "pending", "completed">>
            /\ FileUrlOf(gen[s].statusData) # "")
           => (/\ io[s].downloads = 1
               /\ io[s].polls = 3
               /\ io[s].sleeps * pollInterval = 3 * pollInterval
               /\ io[s].sleeps * pollInterval >= 2 * pollInterval)

C10_Witness ==
    \E s \in Slots :
        /\ pc[s] = "download"
        /\ statusLog[s] = <<"pending", "pending", "completed">>
        /\ io[s].downloads = 1

\* the text `whole` ends with the fragments `part`
EndsWith(whole, part) ==
    /\ Len(whole) >= Len(part)
    /\ SubSeq(whole, Len(whole) - Len(part) + 1, Len(whole)) = part

\* C11: when a poll reports completed and the payload has neither a non-empty
\* generated_files list nor a top-level url, the call ends in that step as a result
\* without isError whose content is one text block that embeds the raw status payload;
\* no file request is issued and the store is left alone.
C11_CompletedWithoutUrlIsDiagnostic ==
    [][\A s \in Slots :
          (/\ pc[s] = "poll"
           /\ pc'[s] # "poll"
           /\ io'[s].last = "completed"
           /\ Len(gen'[s].statusData.generated_files) = 0
           /\ gen'[s].statusData.url = "")
          => (/\ settled'[s].tag = "return"
              /\ Len(settled'[s].value) = 1
              /\ settled'[s].value[1].type = "text"
              /\ EndsWith(settled'[s].value[1].text, Stringify(gen'[s].statusData))
              /\ IsRpcResult(frame'[s].response)
              /\ ~frame'[s].response.result.isError
              /\ frame'[s].response.result.content = settled'[s].value
              /\ ~Polling(s)'
              /\ io'[s].downloads = 0
              /\ io'[s].polls = io[s].polls
              /\ imageStore' = imageStore)]_vars

C11_Witness ==
    \E s \in Slots :
        /\ pc[s] = "done"
        /\ io[s].last = "completed"
        /\ io[s].polls = 2
        /\ FileUrlOf(gen[s].statusData) = ""
        /\ settled[s].tag = "return"
        /\ http[s].status = 200

\* C12: when the file request is answered with a non-2xx status, the call ends in that
\* step as a result without isError whose content is one text block that embeds the
\* HTTP status and the URL; the store is left alone and no second file request is
\* issued.
C12_FailedDownloadIsDiagnostic ==
    [][\A s \in Slots :
          (/\ pc[s] = "download"
           /\ pc'[s] # "download"
           /\ io'[s].file = "http_error")
          => (/\ settled'[s].tag = "return"
              /\ Len(settled'[s].value) = 1
              /\ settled'[s].value[1].type = "text"
              /\ settled'[s].value[1].text =
                    <<"Visual generated but failed to download: ",
                      ToString(gen'[s].fileStatus), ". URL: ", gen[s].fileUrl>>
              /\ ~Ok([status |-> gen'[s].fileStatus])
              /\ gen[s].fileUrl = FileUrlOf(gen[s].statusData)
              /\ IsRpcResult(frame'[s].response)
              /\ ~frame'[s].response.result.isError
              /\ frame'[s].response.result.content = settled'[s].value
              /\ ~Polling(s)'
              /\ io'[s].downloads = 1
              /\ imageStore' = imageStore)]_vars

C12_Witness ==
    \E s \in Slots :
        /\ pc[s] = "done"
        /\ io[s].file = "http_error"
        /\ gen[s].fileStatus = 404
        /\ gen[s].fileUrl = "https://x/f.png"
        /\ settled[s].tag = "return"
        /\ imageStore = EmptyMap

\* the element is a generate_visual call that carries an `arguments` object
GenerateCall(request) ==
    /\ request.isObject
    /\ request.method = "tools/call"
    /\ request.params.present
    /\ request.params.name = "generate_visual"
    /\ request.params.hasArgs

\* C13: a generate_visual call (with its arguments object) issues exactly one creation
\* request, from its start to its end; when that request is answered with a non-2xx
\* status, or with a body that has neither id nor request_id, the call fails and has
\* issued no status poll (nor waited a poll interval, nor requested a file).
C13_SubmissionIsNotRetried ==
    \A s \in Slots :
        /\ io[s].creates <= 1
        /\ Polling(s) => io[s].creates = 1
        /\ (pc[s] = "done" /\ GenerateCall(Current(s)))
           => (io[s].creates = 1 /\ io[s].create # "")
        /\ io[s].create \in {"http_error", "no_id"}
           => (/\ settled[s].tag = "throw"
               /\ frame[s].response.result.isError
               /\ ~Polling(s)
               /\ io[s].polls = 0
               /\ io[s].sleeps = 0
               /\ io[s].downloads = 0)
        /\ io[s].polls >= 1 => io[s].create = "ok"

C13_Witness ==
    \E s \in Slots :
        /\ pc[s] = "done"
        /\ GenerateCall(Current(s))
        /\ io[s].create = "no_id"
        /\ io[s].creates = 1
        /\ settled[s] = Throw(<<"No request ID returned from Napkin API">>)

\* the element is a bundle_images call that carries an `arguments` object
BundleCall(request) ==
    /\ request.isObject
    /\ request.method = "tools/call"
    /\ request.params.present
    /\ request.params.name = "bundle_images"
    /\ request.params.hasArgs

\* the step in which handleMcpRequest is called on the next element of connection s
Handles(s) ==
    /\ pc[s] = "loop"
    /\ frame'[s].body = frame[s].body
    /\ frame'[s].idx = frame[s].idx + 1

\* C14: when some id of the requested sequence is absent from the store at the time
\* bundleImages runs, the call fails with the error that names the first absent id in
\* sequence order, and the store is left as it was: no bundle record is created.
C14_BundleCreationIsStrict ==
    [][\A s \in Slots :
          (/\ Handles(s)
           /\ BundleCall(frame[s].body[frame[s].idx + 1]))
          => LET ids == frame[s].body[frame[s].idx + 1].params.image_ids
             IN \A i \in 1..Len(ids) :
                   (/\ ids[i] \notin DOMAIN imageStore
                    /\ \A j \in 1..(i - 1) : ids[j] \in DOMAIN imageStore)
                   => (/\ settled'[s] =
                             Throw(<<"Image not found: ", ids[i], ". Images expire after 1 hour.">>)
                       /\ frame'[s].response.result.isError
                       /\ imageStore' = imageStore)]_vars

C14_Witness ==
    \E s \in Slots :
        /\ pc[s] = "done"
        /\ BundleCall(Current(s))
        /\ Current(s).params.image_ids = <<"a1b2c3d4", "b2c3d4e5">>
        /\ DOMAIN imageStore = {"a1b2c3d4"}
        /\ settled[s] = Throw(<<"Image not found: ", "b2c3d4e5", ". Images expire after 1 hour.">>)

\* C15: bundleImages called with an empty or absent image_ids fails with the error
\* "No image IDs provided" and leaves the store as it was; at no time does the store
\* hold a bundle record without member ids.
C15_EmptyBundleIsRefused ==
    /\ [](\A k \in DOMAIN imageStore :
             imageStore[k].type = "bundle" => Len(imageStore[k].imageIds) > 0)
    /\ [][\A s \in Slots :
             (/\ Handles(s)
              /\ BundleCall(frame[s].body[frame[s].idx + 1])
              /\ \/ ~frame[s].body[frame[s].idx + 1].params.hasImageIds
                 \/ frame[s].body[frame[s].idx + 1].params.image_ids = <<>>)
             => (/\ settled'[s] = Throw(<<"No image IDs provided">>)
                 /\ frame'[s].response.result.isError
                 /\ imageStore' = imageStore)]_vars

C15_Witness ==
    \E s \in Slots :
        /\ pc[s] = "done"
        /\ BundleCall(Current(s))
        /\ ~Current(s).params.hasImageIds
        /\ settled[s] = Throw(<<"No image IDs provided">>)
        /\ imageStore # EmptyMap

\* the step in which a download endpoint answers a request on `route`.  (A request that
\* is answered exactly as the one before it leaves `served` as it is; the same request
\* is a step of this kind after a request for another id.)
Answers(route) == served' # served /\ served'.route = route

\* the record is an artifact record
IsArtifact(record) == record.type # "bundle"

\* C16: for a bundle record that is in the store, GET /download/zip/:bundleId answers
\* 200 with one archive entry (stored filename, stored bytes) per member id the store
\* holds as an artifact record, in the order of the bundle's member ids; member ids the
\* store no longer holds are skipped and do not make the request fail.
C16_BundleServingIsLenient ==
    [][(/\ Answers("/download/zip/:bundleId")
        /\ BundleKey(served'.id) \in DOMAIN imageStore
        /\ imageStore[BundleKey(served'.id)].type = "bundle")
       => LET Present(member) == member \in DOMAIN imageStore /\ IsArtifact(imageStore[member])
              present == SelectSeq(imageStore[BundleKey(served'.id)].imageIds, Present)
          IN /\ served'.status = 200
             /\ Len(served'.entries) = Len(present)
             /\ \A i \in 1..Len(present) :
                   served'.entries[i] = [name |-> imageStore[present[i]].filename,
                                         data |-> imageStore[present[i]].data]
             /\ imageStore' = imageStore]_vars

C16_Witness ==
    /\ served.route = "/download/zip/:bundleId"
    /\ served.status = 200
    /\ BundleKey(served.id) \in DOMAIN imageStore
    /\ imageStore[BundleKey(served.id)].imageIds = <<"a1b2c3d4", "b2c3d4e5">>
    /\ "b2c3d4e5" \notin DOMAIN imageStore
    /\ "a1b2c3d4" \in DOMAIN imageStore
    /\ Len(served.entries) = 1
    /\ served.entries[1].name = "napkin_a1b2c3d4.png"

\* C17: no step removes an entry of the store whose age is at most 3600 s, whatever
\* sweeps run, so an artifact stored at T is still there at T + 3599 s, and GET
\* /download/:id serves an artifact that is there; the store holds no entry whose age
\* exceeded 3600 s when the sweeper last ran, so at T + 3601 s the artifact is absent
\* once the sweeper has run after its age exceeded 3600 s.
C17_ArtifactTtl ==
    /\ [][\A id \in DOMAIN imageStore :
             now - imageStore[id].created <= oneHour => id \in DOMAIN imageStore']_vars
    /\ [][\A id \in DOMAIN imageStore :
             (Answers("/download/:id") /\ served'.id = id /\ IsArtifact(imageStore[id]))
             => (served'.status = 200 /\ served'.body = imageStore[id].data)]_vars
    /\ [](\A id \in DOMAIN imageStore : ~(sweptAt - imageStore[id].created > oneHour))

C17_Witness ==
    \E s \in Slots :
        /\ settled[s].tag = "return"
        /\ Len(settled[s].value) = 2
        /\ now = oneHour + 1000
        /\ sweptAt = now
        /\ served.route = "/download/:id"
        /\ served.id = settled[s].value[2].text[2]
        /\ served.status = 404
        /\ served.id \notin DOMAIN imageStore

\* C18: GET /download/:id answers 404 when the id is not in the store or is the key of
\* a bundle record, and otherwise 200 with the stored bytes, mime type and filename of
\* the artifact; GET /download/zip/:bundleId answers 404 when the store has no record
\* for the bundle id.  Neither changes the store.
C18_DownloadsAnswer404 ==
    [][/\ Answers("/download/:id")
          => /\ IF served'.id \notin DOMAIN imageStore \/ imageStore[served'.id].type = "bundle"
                THEN /\ served'.status = 404
                     /\ served'.body = "Image not found or expired"
                ELSE /\ served'.status = 200
                     /\ served'.body = imageStore[served'.id].data
                     /\ served'.contentType = imageStore[served'.id].mimeType
                     /\ served'.filename = imageStore[served'.id].filename
             /\ imageStore' = imageStore
       /\ (Answers("/download/zip/:bundleId") /\ BundleKey(served'.id) \notin DOMAIN imageStore)
          => (/\ served'.status = 404
              /\ served'.entries = <<>>
              /\ imageStore' = imageStore)]_vars

C18_Witness ==
    /\ served.route = "/download/:id"
    /\ served.id \in DOMAIN imageStore
    /\ imageStore[served.id].type = "bundle"
    /\ served.status = 404

\* C19: a step that removes a key from imageStore or from sessions is a run of the
\* sweeper: it changes nothing but the two maps and the time of the last sweep.  No
\* step of POST /mcp, the dispatcher, the tool handlers, the download endpoints or
\* GET /sse (each of which changes one of the other variables) removes a key.
C19_OnlySweeperRemoves ==
    [][(\/ ~(DOMAIN sessions \subseteq DOMAIN sessions')
        \/ ~(DOMAIN imageStore \subseteq DOMAIN imageStore'))
       => (/\ sweptAt' = now
           /\ UNCHANGED <<accepted, pc, frame, http, gen, io, statusLog, settled, now, streams,
                           served>>)]_vars

\* C20: no step replaces a record of the store by a record of the other kind, and the
\* two kinds keep apart by their keys: a record is a bundle record exactly when its key
\* starts with "bundle_".
C20_KindsNeverOverwritten ==
    /\ [][\A k \in DOMAIN imageStore \cap DOMAIN imageStore' :
             imageStore'[k].type = imageStore[k].type]_vars
    /\ [](\A k \in DOMAIN imageStore :
             imageStore[k].type = "bundle" <=> (Len(k) > 7 /\ SubSeq(k, 1, 7) = "bundle_"))

C20_Witness ==
    /\ sweptAt >= 0
    /\ \E u \in BundleUuids :
          /\ BundleKey(u) \in DOMAIN imageStore
          /\ Slice8(u) \in DOMAIN imageStore
          /\ imageStore[Slice8(u)].created > imageStore[BundleKey(u)].created

\* C21: the closing of the client's connection, once the creation request has been
\* issued, changes nothing but the connection: the call's next step stays enabled, the
\* call ends only as the poller ends it (with its outcome wrapped into the response
\* the handler sends), a timeout still takes 12 polls, and a successful download still
\* puts the artifact into the store.
C21_DisconnectDoesNotCancel ==
    /\ [][\A s \in Slots :
             (~frame[s].closed /\ frame'[s].closed)
             => (/\ frame' = [frame EXCEPT ![s].closed = TRUE]
                 /\ UNCHANGED <<imageStore, sessions, pc, http, gen, io, statusLog, settled>>)]_vars
    /\ [][\A s \in Slots :
             (frame[s].closed /\ pc[s] = "download" /\ io'[s].file = "ok")
             => (/\ settled'[s].tag = "return"
                 /\ Len(settled'[s].value) = 2
                 /\ settled'[s].value[2].text[2] \in DOMAIN imageStore'
                 /\ Base64(imageStore'[settled'[s].value[2].text[2]].data)
                       = settled'[s].value[1].data)]_vars
    /\ [](\A s \in Slots :
             frame[s].closed
             => (/\ Polling(s)
                    => ENABLED (\/ CreateResponds(s) \/ SleepElapses(s)
                                \/ StatusResponds(s, 0) \/ FileResponds(s))
                 /\ pc[s] = "done"
                    => (/\ Ended(s)
                        /\ http[s].status = 200
                        /\ frame[s].response = WrapGenerate(Current(s).id, settled[s]))
                 /\ settled[s] = Throw(TimedOut) => io[s].polls = maxAttempts))

C21_Witness ==
    \E s \in Slots :
        /\ pc[s] = "done"
        /\ frame[s].closed
        /\ io[s].polls = 2
        /\ io[s].downloads = 1
        /\ settled[s].tag = "return"
        /\ Len(settled[s].value) = 2
        /\ imageStore # EmptyMap

\* C22: when the file request that follows a `completed` poll with a URL is answered
\* 2xx, the call ends in that step as a result without isError whose content is one
\* image block (the base64 of the downloaded bytes; as mime type the first segment of
\* the response's content-type, image/png when the header is absent) followed by one
\* text block, and the store changes in exactly one key, the id the text block reports,
\* which now holds an artifact record with the same bytes and mime type.
C22_DownloadYieldsImageAndArtifact ==
    [][\A s \in Slots :
          (/\ pc[s] = "download"
           /\ pc'[s] # "download"
           /\ io'[s].file = "ok")
          => LET content == settled'[s].value
                 mimeType == IF gen'[s].fileType = <<>> THEN "image/png"
                             ELSE Head(gen'[s].fileType)
             IN /\ Completed(gen[s].statusData.status)
                /\ gen[s].fileUrl # ""
                /\ settled'[s].tag = "return"
                /\ IsRpcResult(frame'[s].response)
                /\ ~frame'[s].response.result.isError
                /\ frame'[s].response.result.content = content
                /\ Len(content) = 2
                /\ content[1].type = "image"
                /\ content[1].data = Base64(gen'[s].fileBody)
                /\ content[1].mimeType = mimeType
                /\ content[2].type = "text"
                /\ LET imageId == content[2].text[2]
                   IN /\ DOMAIN imageStore' = DOMAIN imageStore \cup {imageId}
                      /\ \A id \in DOMAIN imageStore \ {imageId} :
                             imageStore'[id] = imageStore[id]
                      /\ IsArtifact(imageStore'[imageId])
                      /\ imageStore'[imageId].data = gen'[s].fileBody
                      /\ imageStore'[imageId].mimeType = mimeType]_vars

C22_Witness ==
    \E s \in Slots :
        /\ pc[s] = "done"
        /\ io[s].file = "ok"
        /\ gen[s].fileType = <<"image/svg+xml", " charset=utf-8">>
        /\ settled[s].tag = "return"
        /\ Len(settled[s].value) = 2
        /\ settled[s].value[1].mimeType = "image/svg+xml"
        /\ \E id \in DOMAIN imageStore :
              /\ imageStore[id].mimeType = "image/svg+xml"
              /\ imageStore[id].data = gen[s].fileBody

\* the five ways the poller may end a call, read off the ended call
SubmissionError(s) ==
    settled[s].tag = "throw" /\ io[s].create \in {"http_error", "invalid_json", "no_id"}
ImageResult(s) ==
    /\ settled[s].tag = "return"
    /\ Len(settled[s].value) = 2
    /\ settled[s].value[1].type = "image"
    /\ io[s].file = "ok"
TextualDiagnostic(s) ==
    /\ settled[s].tag = "return"
    /\ Len(settled[s].value) = 1
    /\ settled[s].value[1].type = "text"
GenerationFailure(s) ==
    settled[s].tag = "throw" /\ Head(settled[s].message) = "Visual generation failed: "
Timeout(s) == settled[s] = Throw(TimedOut)

Outcomes(s) ==
    {o \in {"submission", "image", "diagnostic", "failure", "timeout"} :
        \/ o = "submission" /\ SubmissionError(s)
        \/ o = "image" /\ ImageResult(s)
        \/ o = "diagnostic" /\ TextualDiagnostic(s)
        \/ o = "failure" /\ GenerationFailure(s)
        \/ o = "timeout" /\ Timeout(s)}

\* every request the call issued was answered by an HTTP response
AllAnswered(s) ==
    /\ io[s].create # "network_error"
    /\ io[s].last # "network_error"
    /\ io[s].file # "network_error"

\* C23: a generate_visual call whose provider requests were all answered ends in
\* exactly one of the five outcomes (submission error, image result with its stored
\* artifact, textual diagnostic, generation failure, timeout); it has polled at most
\* 12 times, and once it has its outcome it is no longer polling.
C23_FiveOutcomes ==
    \A s \in Slots :
        (/\ Ended(s)
         /\ GenerateCall(Current(s))
         /\ AllAnswered(s))
        => (/\ Cardinality(Outcomes(s)) = 1
            /\ io[s].polls <= maxAttempts
            /\ ~Polling(s))

\* the part of C23 that holds: while no outcome is reached the poller has a step to
\* take, its polls and sleeps are bounded by 12, and an ended call has left the loop
C23_BoundedWait ==
    \A s \in Slots :
        /\ io[s].polls <= maxAttempts
        /\ io[s].sleeps <= maxAttempts
        /\ io[s].creates <= 1
        /\ io[s].downloads <= 1
        /\ Ended(s) => ~Polling(s)
        /\ Polling(s) => ENABLED (\/ CreateResponds(s) \/ SleepElapses(s)
                                  \/ StatusResponds(s, LogCap) \/ FileResponds(s))

\* an ended call, all of whose requests were answered, with none of the five outcomes
C23_SixthOutcome ==
    \E s \in Slots :
        /\ Ended(s)
        /\ GenerateCall(Current(s))
        /\ AllAnswered(s)
        /\ io[s].last = "invalid_json"
        /\ settled[s] = Throw(JsonSyntaxError)
        /\ Outcomes(s) = {}

\* the keys under which the step puts a bundle record into the store
InsertedBundles ==
    {k \in DOMAIN imageStore' :
        /\ IsBundle(imageStore'[k])
        /\ k \notin DOMAIN imageStore \/ imageStore'[k] # imageStore[k]}

\* C24: whatever the interleaving of the tool calls of two connections and of the
\* sweeper, the step that inserts a bundle record finds every member id of the record
\* in the store and leaves it there: validation and insertion are one step, and no
\* eviction comes between them.
C24_BundleCheckAndInsertAtomic ==
    [][\A k \in InsertedBundles :
          \A i \in 1..Len(imageStore'[k].imageIds) :
             /\ imageStore'[k].imageIds[i] \in DOMAIN imageStore
             /\ imageStore'[k].imageIds[i] \in DOMAIN imageStore']_vars

\* a bundle was made of a stored artifact after a run of the sweeper, while the other
\* connection's call was waiting on the provider
C24_Witness ==
    \E k \in DOMAIN imageStore, s \in Connections :
        /\ IsBundle(imageStore[k])
        /\ Len(imageStore[k].imageIds) = 2
        /\ \A i \in 1..2 : imageStore[k].imageIds[i] \in DOMAIN imageStore
        /\ sweptAt >= 0
        /\ sweptAt < imageStore[k].created
        /\ Polling(s)
        /\ io[s].polls >= 1
        /\ \E t \in Connections \ {s} : settled[t].tag = "return" /\ BundleCall(Current(t))

\* a bundle call that came after the sweeper had evicted a requested artifact is
\* refused, and no bundle record exists
C24_WitnessEvicted ==
    \E s \in Connections :
        /\ pc[s] = "done"
        /\ BundleCall(Current(s))
        /\ settled[s].tag = "throw"
        /\ Head(settled[s].message) = "Image not found: "
        /\ sweptAt >= oneHour
        /\ \A k \in DOMAIN imageStore : ~IsBundle(imageStore[k])

\* the record a download request reads: the one under the id, or under the bundle key
ServedKey == IF served'.route = "/download/:id" THEN served'.id ELSE BundleKey(served'.id)

\* C25: the download endpoints do not look at the age of what they serve: a record that
\* is in the store is served whatever its age, so one older than 3600 s is served until
\* the sweeper runs next; with the sweeper running every 60 s, nothing in the store,
\* and so nothing that is served, is older than 3660 s.
C25_ServedWithinTtlPlusInterval ==
    /\ [][(served' # served /\ ServedKey \in DOMAIN imageStore)
          => (/\ served'.status = 200
                 <=> (served'.route = "/download/:id" <=> IsArtifact(imageStore[ServedKey]))
              /\ served'.status = 200
                 => now - imageStore[ServedKey].created <= oneHour + sweepInterval)]_vars
    /\ [](\A k \in DOMAIN imageStore : now - imageStore[k].created <= oneHour + sweepInterval)

\* a bundle and its artifact both served (the zip has its entry) when the artifact is
\* exactly 3660 s old: the sweep of 3600 s kept it, the sweep of 3660 s is due
C25_Witness ==
    /\ served.route = "/download/zip/:bundleId"
    /\ served.status = 200
    /\ Len(served.entries) = 1
    /\ BundleKey(served.id) \in DOMAIN imageStore
    /\ sweptAt = oneHour
    /\ now = oneHour + sweepInterval
    /\ \E id \in DOMAIN imageStore :
          IsArtifact(imageStore[id]) /\ now - imageStore[id].created = oneHour + sweepInterval

\* C26: every member id of a bundle record was, in the step that made the record, the
\* key of an artifact record: a requested id whose key holds a bundle record (the
\* `bundle_<uuid>` key of a bundle made before) is refused as missing, and the call
\* makes no bundle.
C26_BundleMembersAreArtifacts ==
    [][\A k \in InsertedBundles :
          \A i \in 1..Len(imageStore'[k].imageIds) :
             /\ imageStore'[k].imageIds[i] \in DOMAIN imageStore
             /\ IsArtifact(imageStore[imageStore'[k].imageIds[i]])]_vars

\* a bundle whose one member is the key of another bundle record
C26_BundleOfBundle ==
    \E k \in DOMAIN imageStore :
        /\ IsBundle(imageStore[k])
        /\ Len(imageStore[k].imageIds) = 1
        /\ imageStore[k].imageIds[1] # k
        /\ imageStore[k].imageIds[1] \in DOMAIN imageStore
        /\ IsBundle(imageStore[imageStore[k].imageIds[1]])

====
